---- MODULE Spec2Model ----
(***************************************************************************)
(* A model of src/app.py, the Flask/SQLite backend of the QR attendance    *)
(* tracker.  The state is the content of the three tables (users,          *)
(* sessions, attendance) plus what the database and the environment keep   *)
(* between requests (the AUTOINCREMENT counter, the stream of fresh uuids, *)
(* the wall clock) and the last HTTP response.  One action per request     *)
(* handler.  Spec runs the handlers one at a time; SpecConc runs           *)
(* mark_attendance as its three SQL statements, interleaved between two    *)
(* request threads, each on its own connection.                            *)
(*                                                                         *)
(* The two statistics handlers write nothing: they are operators on the    *)
(* state (student_stats, admin_attendance_data).                           *)
(*                                                                         *)
(* Left out, because no modelled behaviour reads them: name, password      *)
(* hash, semester, class_name, class_code, the login handler, the          *)
(* percentage and the record list of the two statistics handlers.          *)
(* Requests are well formed (every required field is present), so the 400  *)
(* answers to a missing field are left out too.                            *)
(*                                                                         *)
(* Time: clock is time.time() in ticks; it moves on by one tick with every *)
(* row mark_attendance stores.  Session timestamps are kept in whole days, *)
(* so a date filter [start_of_day, end_of_day) is [d, d + 1).              *)
(***************************************************************************)
EXTENDS Integers, Sequences, FiniteSets, TLC

VARIABLES
    users,       \* table users: rows [id, role, username, rollno, class_id]
    sessions,    \* table sessions: rows [qr_token, class_id, timestamp]
    attendance,  \* table attendance: rows [id, student_id, qr_token, status, timestamp]
    next_user,   \* index in Uuids of the next value of uuid.uuid4()
    next_id,     \* the next AUTOINCREMENT id of attendance
    clock,       \* time.time()
    last,        \* the last HTTP response sent
    pc           \* per request thread: where it is in mark_attendance

vars == <<users, sessions, attendance, next_user, next_id, clock, last, pc>>
db == <<users, sessions, attendance>>

(* ---------------------------- bounds ----------------------------------- *)
\* rows ever inserted into attendance (AUTOINCREMENT never reuses an id)
MaxRecords == 2

(* ------------------------- input domains ------------------------------- *)
None == "None"
\* the values uuid.uuid4() returns to register, in the order it returns them;
\* no id is handed out twice
Uuids == <<"id1", "id2">>
Classes == {"c1", "c2"}
\* the people who register, in the order in which they first do: each has one
\* username and one roll number
Persons == << [username |-> "u1", rollno |-> "r1"], [username |-> "u2", rollno |-> "r2"] >>
\* the 'date' strings an admin submits, in calendar order, and one that
\* strptime rejects
Dates == <<"2024-01-01", "2024-01-02">>
DateInputs == {Dates[i] : i \in DOMAIN Dates}
BadDate == "01/01/2024"
\* str(uuid.uuid4())[:8].upper(): hex digits, letters in upper case
Tokens == { <<"A", "1">>, <<"B", "2">> }
\* qr_token strings a client submits: the tokens as issued, and one in lower
\* case padded with spaces
QrInputs == Tokens \cup { <<" ", "a", "1", " ">> }
\* requests are well formed: every required field is present and valid
Statuses == {"Present", "Absent"}
\* request threads of the server, each with its own connection
Threads == {1, 2}
Idle == [at |-> "idle"]

(* --------------------------- responses --------------------------------- *)
InvalidCode == "Invalid or expired QR code/session."
AlreadyMarked == "Attendance already marked for this session."
\* the handler that answered last, its HTTP status and its message
Response(op, code, message) == [op |-> op, code |-> code, message |-> message]

(* ----------------------------- Init ------------------------------------ *)
\* initialize_db: CREATE TABLE IF NOT EXISTS on a new database file
Init ==
    /\ users = {}
    /\ sessions = {}
    /\ attendance = {}
    /\ next_user = 1
    /\ next_id = 1
    /\ clock = 0
    /\ last = Response("initialize_db", 0, "")
    /\ pc = [t \in Threads |-> Idle]

(* --------------------------- register ---------------------------------- *)
\* UNIQUE(username), UNIQUE(rollno); SQLite treats NULL rollnos as distinct
users_integrity_error(username, rollno) ==
    \/ \E u \in users : u.username = username
    \/ rollno # None /\ \E u \in users : u.rollno = rollno

register(role, username, rollno, class_id) ==
    /\ next_user <= Len(Uuids)
    /\ UNCHANGED <<sessions, attendance, next_id, clock, pc>>
    /\ IF role \notin {"admin", "student"}
       THEN /\ last' = Response("register", 400, "Invalid role specified")
            /\ UNCHANGED <<users, next_user>>
       ELSE IF role = "student" /\ rollno = None
       THEN /\ last' = Response("register", 400, "Students must provide a Roll Number and Semester")
            /\ UNCHANGED <<users, next_user>>
       ELSE LET stored == IF role = "admin" THEN None ELSE rollno IN
            IF users_integrity_error(username, stored)
            THEN /\ last' = Response("register", 409, "Username or Roll Number already exists.")
                 /\ UNCHANGED <<users, next_user>>
            ELSE /\ users' = users \cup {[id |-> Uuids[next_user], role |-> role,
                                          username |-> username, rollno |-> stored,
                                          class_id |-> class_id]}
                 /\ next_user' = next_user + 1
                 /\ last' = Response("register", 201, "registration successful")

(* ------------------------- create_session ------------------------------ *)
\* datetime.strptime(date_str, '%Y-%m-%d'): the day's number, or ValueError
ValueError(date_str) == ~ \E i \in DOMAIN Dates : Dates[i] = date_str
strptime(date_str) == CHOOSE i \in DOMAIN Dates : Dates[i] = date_str

\* datetime.combine(session_date, now().time()).timestamp(), kept in whole days
session_timestamp(session_date) == session_date

create_session(qr_token, class_id, date_str) ==
    /\ UNCHANGED <<users, attendance, next_user, next_id, clock, pc>>
    /\ IF ValueError(date_str)
       THEN /\ last' = Response("create_session", 400, "Invalid date format")
            /\ UNCHANGED sessions
       ELSE IF \E s \in sessions : s.qr_token = qr_token
       THEN \* PRIMARY KEY(qr_token): the uuid prefix collided
            /\ last' = Response("create_session", 500, "Database error")
            /\ UNCHANGED sessions
       ELSE /\ sessions' = sessions \cup {[qr_token |-> qr_token, class_id |-> class_id,
                                           timestamp |-> session_timestamp(strptime(date_str))]}
            /\ last' = Response("create_session", 201, "created")

(* ------------------------- mark_attendance ----------------------------- *)
\* SELECT ... FROM sessions WHERE qr_token = ?  (binary comparison of TEXT)
session_row(sess, qr_token) == {s \in sess : s.qr_token = qr_token}

\* a variant that treats only a Present row as a mark
already_marked_present(att, student_id, qr_token) ==
    {a \in att : a.student_id = student_id /\ a.qr_token = qr_token
                   /\ a.status = "Present"}

\* SELECT id FROM attendance WHERE student_id = ? AND qr_token = ?
already_marked(att, student_id, qr_token) ==
    {a \in att : a.student_id = student_id /\ a.qr_token = qr_token}

\* if not session_row: close, answer 400
invalid_session ==
    /\ last' = Response("mark_attendance", 400, InvalidCode)
    /\ UNCHANGED <<attendance, next_id, clock>>

\* a variant that stamps the stored row again before it answers
refresh_marked(student_id, qr_token) ==
    /\ last' = Response("mark_attendance", 400, AlreadyMarked)
    /\ attendance' = {IF a.student_id = student_id /\ a.qr_token = qr_token
                       THEN [a EXCEPT !.timestamp = clock] ELSE a : a \in attendance}
    /\ UNCHANGED <<next_id, clock>>

\* if already_marked: close, answer 400
reject_marked(student_id, qr_token) ==
    /\ last' = Response("mark_attendance", 400, AlreadyMarked)
    /\ UNCHANGED <<attendance, next_id, clock>>

\* INSERT INTO attendance (student_id, qr_token, status, timestamp); commit
attendance_insert(student_id, qr_token) ==
    /\ attendance' = attendance \cup {[id |-> next_id, student_id |-> student_id,
                                       qr_token |-> qr_token, status |-> "Present",
                                       timestamp |-> clock]}
    /\ next_id' = next_id + 1
    /\ clock' = clock + 1
    /\ last' = Response("mark_attendance", 200, "Attendance marked")

\* the handler run from its first statement to its last with no other request
\* in between
mark_attendance(student_id, qr_token) ==
    /\ UNCHANGED <<users, sessions, next_user, pc>>
    /\ IF session_row(sessions, qr_token) = {}
       THEN invalid_session
       ELSE IF already_marked(attendance, student_id, qr_token) # {}
       THEN reject_marked(student_id, qr_token)
       ELSE next_id <= MaxRecords /\ attendance_insert(student_id, qr_token)

(* ------------------------ update_attendance ---------------------------- *)
\* a variant whose WHERE clause names the student of the row, not the row
attendance_update_student(att, record_id, status) ==
    {IF \E r \in att : r.id = record_id /\ r.student_id = a.student_id
     THEN [a EXCEPT !.status = status] ELSE a : a \in att}

\* UPDATE attendance SET status = ? WHERE id = ?
attendance_update(att, record_id, status) ==
    {IF a.id = record_id THEN [a EXCEPT !.status = status] ELSE a : a \in att}

update_attendance(record_id, status) ==
    /\ UNCHANGED <<users, sessions, next_user, next_id, clock, pc>>
    /\ IF status \notin {"Present", "Absent"}
       THEN /\ last' = Response("update_attendance", 400, "Invalid record ID or status")
            /\ UNCHANGED attendance
       ELSE /\ attendance' = attendance_update(attendance, record_id, status)
            /\ last' = Response("update_attendance", 200, "Record updated")

(* -------------------------- delete_student ----------------------------- *)
\* a variant that deletes the user row only
attendance_delete_skipped(att, student_id) == att

\* DELETE FROM attendance WHERE student_id = ?
attendance_delete(att, student_id) == {a \in att : a.student_id # student_id}

\* DELETE FROM users WHERE id = ? AND role = 'student'
users_delete(usr, student_id) ==
    {u \in usr : ~(u.id = student_id /\ u.role = "student")}

delete_student(student_id) ==
    /\ UNCHANGED <<sessions, next_user, next_id, clock, pc>>
    /\ attendance' = attendance_delete(attendance, student_id)
    /\ users' = users_delete(users, student_id)
    /\ LET rowcount == Cardinality(users) - Cardinality(users')
       IN  last' = IF rowcount = 0
                   THEN Response("delete_student", 404, "Student not found.")
                   ELSE Response("delete_student", 200, "Student deleted successfully")

(* --------------------------- statistics -------------------------------- *)
\* date_params: [start_of_day, end_of_day] of the target date, or [] when no
\* date is given or the date does not parse
date_filter(target_date_str) ==
    IF target_date_str = None \/ ValueError(target_date_str)
    THEN <<>>
    ELSE LET target_date == strptime(target_date_str)
         IN  <<target_date, target_date + 1>>

\* sessions s WHERE class_id = ? [AND s.timestamp >= ? AND s.timestamp < ?]
sessions_of(class_id, date) ==
    LET date_params == date_filter(date) IN
    {s \in sessions :
        /\ s.class_id = class_id
        /\ date_params # <<>> =>
              (s.timestamp >= date_params[1] /\ s.timestamp < date_params[2])}

\* SELECT COUNT(qr_token) FROM sessions ...
total_sessions_count(class_id, date) == Cardinality(sessions_of(class_id, date))

\* a variant whose join leaves out the class and date conditions on s
attended_count_any_session(student_id, class_id, date) ==
    Cardinality({p \in attendance \X sessions :
                    /\ p[1].qr_token = p[2].qr_token
                    /\ p[1].student_id = student_id
                    /\ p[1].status = "Present"})

\* SELECT COUNT(T1.id) FROM attendance T1 JOIN sessions s ON T1.qr_token = s.qr_token
\* WHERE T1.student_id = ? AND T1.status = 'Present' AND s.class_id = ? [date filter]
attended_count(student_id, class_id, date) ==
    Cardinality({p \in attendance \X sessions_of(class_id, date) :
                    /\ p[1].qr_token = p[2].qr_token
                    /\ p[1].student_id = student_id
                    /\ p[1].status = "Present"})

\* GET /student/stats/<student_id>
student_stats(student_id) ==
    LET student_user_data == {u \in users : u.id = student_id} IN
    IF student_user_data = {}
    THEN [code |-> 404]
    ELSE LET class_id == (CHOOSE u \in student_user_data : TRUE).class_id
             total_classes == total_sessions_count(class_id, None)
             attended == attended_count(student_id, class_id, None)
         IN  [code |-> 200, total_classes |-> total_classes, attended |-> attended,
              missed |-> total_classes - attended]

\* POST /admin/attendance: the "stats" list, keyed by student id.  A date that
\* does not parse is ignored, which is the request with no date.
admin_attendance_data(class_id, date) ==
    LET students == {u \in users : u.role = "student" /\ u.class_id = class_id} IN
    [id \in {u.id : u \in students} |->
        [attended |-> attended_count(id, class_id, date),
         total |-> total_sessions_count(class_id, date)]]

(* ----------------------------- Spec ------------------------------------ *)
\* ids a request carries as student_id: the ids register has handed out,
\* whether or not the user still exists
KnownIds == {Uuids[i] : i \in 1..(next_user - 1)}
RecordIds == 1..MaxRecords

\* who sends a register request: the next person who has no account yet, or
\* one whose account exists
Applicants ==
    {Persons[i] : i \in {j \in DOMAIN Persons :
                            \/ j = next_user
                            \/ \E u \in users : u.username = Persons[j].username}}

Next ==
    \/ \E p \in Applicants, class_id \in Classes :
          register("student", p.username, p.rollno, class_id)
    \/ \E p \in Applicants : register("admin", p.username, None, "c1")
    \/ \E qr_token \in Tokens, class_id \in Classes, date \in DateInputs :
          create_session(qr_token, class_id, date)
    \/ \E student_id \in KnownIds, qr_token \in QrInputs :
          mark_attendance(student_id, qr_token)
    \/ \E record_id \in RecordIds, status \in Statuses :
          update_attendance(record_id, status)
    \/ \E student_id \in KnownIds : delete_student(student_id)

\* the handlers, one request at a time
Spec == Init /\ [][Next]_vars

(* ------------------- mark_attendance, statement by statement ----------- *)
\* Each request thread has its own connection (get_db_connection).  sqlite3
\* runs the two SELECTs outside any transaction and opens one only for the
\* INSERT, so other requests' statements can run between the three.

\* statement 1: the session lookup of a request that has just arrived
mark_begin(t, student_id, qr_token) ==
    /\ pc[t] = Idle
    /\ UNCHANGED <<users, sessions, next_user>>
    /\ IF session_row(sessions, qr_token) = {}
       THEN invalid_session /\ UNCHANGED pc
       ELSE /\ pc' = [pc EXCEPT ![t] = [at |-> "lookup", student_id |-> student_id,
                                        qr_token |-> qr_token]]
            /\ UNCHANGED <<attendance, next_id, clock, last>>

\* statement 2: the lookup of an existing row
mark_lookup(t) ==
    /\ pc[t].at = "lookup"
    /\ UNCHANGED <<users, sessions, next_user>>
    /\ IF already_marked(attendance, pc[t].student_id, pc[t].qr_token) # {}
       THEN /\ reject_marked(pc[t].student_id, pc[t].qr_token)
            /\ pc' = [pc EXCEPT ![t] = Idle]
       ELSE /\ pc' = [pc EXCEPT ![t] = [pc[t] EXCEPT !.at = "insert"]]
            /\ UNCHANGED <<attendance, next_id, clock, last>>

\* statement 3: the INSERT and its commit
mark_commit(t) ==
    /\ pc[t].at = "insert"
    /\ next_id <= MaxRecords
    /\ UNCHANGED <<users, sessions, next_user>>
    /\ attendance_insert(pc[t].student_id, pc[t].qr_token)
    /\ pc' = [pc EXCEPT ![t] = Idle]

\* any id can be sent as student_id: the handler never reads users
AnyIds == {Uuids[i] : i \in DOMAIN Uuids}

NextConc ==
    \/ \E qr_token \in Tokens, class_id \in Classes, date \in DateInputs :
          create_session(qr_token, class_id, date)
    \/ \E t \in Threads, student_id \in AnyIds, qr_token \in QrInputs :
          mark_begin(t, student_id, qr_token)
    \/ \E t \in Threads : mark_lookup(t)
    \/ \E t \in Threads : mark_commit(t)

\* sessions are created and two threads serve mark_attendance requests
SpecConc == Init /\ [][NextConc]_vars

(* ------------------- token normalisation (claim C4) -------------------- *)
\* str.strip() and str.upper(), which the specification asks for
LowerCase == <<"a", "b">>
UpperCase == <<"A", "B">>
upper_char(c) ==
    IF \E i \in DOMAIN LowerCase : LowerCase[i] = c
    THEN UpperCase[CHOOSE i \in DOMAIN LowerCase : LowerCase[i] = c]
    ELSE c
upper(s) == [i \in DOMAIN s |-> upper_char(s[i])]
RECURSIVE lstrip(_)
lstrip(s) == IF s # <<>> /\ Head(s) = " " THEN lstrip(Tail(s)) ELSE s
RECURSIVE rstrip(_)
rstrip(s) ==
    IF s # <<>> /\ s[Len(s)] = " " THEN rstrip(SubSeq(s, 1, Len(s) - 1)) ELSE s
strip(s) == rstrip(lstrip(s))
Normalize(s) == upper(strip(s))

(* ======================= the claims, one by one ======================== *)
\* the rows of one (student, session) pair
pair_rows(att, student_id, qr_token) ==
    {a \in att : a.student_id = student_id /\ a.qr_token = qr_token}

(* C1: with the handlers run one at a time, the attendance table never holds
   two rows for the same (student_id, qr_token) pair. *)
C1_OneRowPerPair ==
    \A a, b \in attendance :
        (a.student_id = b.student_id /\ a.qr_token = b.qr_token) => a = b

\* a second mark_attendance for a stored pair has been turned away, and the
\* same student holds rows for two sessions
C1_Witness ==
    /\ last = Response("mark_attendance", 400, AlreadyMarked)
    /\ \E a, b \in attendance : a.student_id = b.student_id /\ a.qr_token # b.qr_token

(* C2: when two mark_attendance requests for the same student and token run
   with their statements interleaved, at most one row for that pair exists
   afterwards. *)
C2_AtomicCheckThenInsert ==
    \A student_id \in AnyIds, qr_token \in Tokens :
        (\A t \in Threads : pc[t] = Idle)
            => Cardinality(pair_rows(attendance, student_id, qr_token)) <= 1

(* C3, as claimed: mark_attendance for a pair that has a Present row answers
   with a success status carrying the "already marked" message and leaves the
   stored state unchanged. *)
C3_AlreadyMarkedIsSuccess ==
    [][last'.op = "mark_attendance" =>
       \A student_id \in KnownIds, qr_token \in QrInputs :
          (/\ \E a \in pair_rows(attendance, student_id, qr_token) : a.status = "Present"
           /\ mark_attendance(student_id, qr_token))
          => (/\ last'.code = 200
              /\ last'.message = AlreadyMarked
              /\ db' = db)]_vars

(* C3, amended: mark_attendance for a pair that has a Present row answers 400
   with the "already marked" message and leaves the stored state unchanged:
   every user, session and attendance row, status and timestamp included. *)
C3_AlreadyMarkedIsRejected ==
    [][last'.op = "mark_attendance" =>
       \A student_id \in KnownIds, qr_token \in QrInputs :
          (/\ \E a \in pair_rows(attendance, student_id, qr_token) : a.status = "Present"
           /\ mark_attendance(student_id, qr_token))
          => (/\ last'.code = 400
              /\ last'.message = AlreadyMarked
              /\ db' = db)]_vars

\* a repeated mark has been answered, later than the rows were stamped, and
\* every stored row is Present
C3_Witness ==
    /\ last = Response("mark_attendance", 400, AlreadyMarked)
    /\ attendance # {}
    /\ \A a \in attendance : a.status = "Present" /\ a.timestamp < clock

(* C4: for every stored session token T and every submitted string that is T
   after trimming and upper-casing, mark_attendance by a student with no row
   for T succeeds and stores a Present row for (student, T). *)
C4_NormalizedLookup ==
    [][last'.op = "mark_attendance" =>
       \A student_id \in KnownIds, qr_token \in QrInputs :
          (/\ session_row(sessions, Normalize(qr_token)) # {}
           /\ pair_rows(attendance, student_id, Normalize(qr_token)) = {}
           /\ mark_attendance(student_id, qr_token))
          => (/\ last'.code = 200
              /\ \E a \in pair_rows(attendance', student_id, Normalize(qr_token)) :
                    a.status = "Present")]_vars

(* C5: mark_attendance for a pair whose row is Absent sets the row to Present
   and its timestamp to the time of the call. *)
C5_AbsentFlipsToPresent ==
    [][last'.op = "mark_attendance" =>
       \A student_id \in KnownIds, qr_token \in QrInputs :
          (/\ \E a \in pair_rows(attendance, student_id, qr_token) : a.status = "Absent"
           /\ mark_attendance(student_id, qr_token))
          => (\A a \in pair_rows(attendance', student_id, qr_token) :
                 a.status = "Present" /\ a.timestamp = clock)]_vars

(* C6: update_attendance with a valid status and a record id that matches no
   row answers 404 and changes no attendance row. *)
C6_UpdateNotFound ==
    [][last'.op = "update_attendance" =>
       \A record_id \in RecordIds, status \in {"Present", "Absent"} :
          (/\ ~ \E a \in attendance : a.id = record_id
           /\ update_attendance(record_id, status))
          => (last'.code = 404 /\ attendance' = attendance)]_vars

(* C7: after any sequence of requests, the attended count student_stats and
   the admin roster (with any date filter or none) report for a student is at
   most the total reported with it, so missed is never negative. *)
C7_AttendedAtMostTotal ==
    /\ \A student_id \in KnownIds :
          LET st == student_stats(student_id) IN
          (st.code = 200) => (st.attended <= st.total_classes /\ st.missed >= 0)
    /\ \A class_id \in Classes, date \in DateInputs \cup {None, BadDate} :
          LET roster == admin_attendance_data(class_id, date) IN
          \A id \in DOMAIN roster : roster[id].attended <= roster[id].total

\* a student has attended both sessions of the class, held on different days:
\* 2 of 2 in student_stats, 1 of 1 in the roster of one day
C7_Witness ==
    \E u \in users, date \in DateInputs :
        /\ u.role = "student"
        /\ student_stats(u.id).attended = 2
        /\ student_stats(u.id).total_classes = 2
        /\ admin_attendance_data(u.class_id, date)[u.id] = [attended |-> 1, total |-> 1]

\* what update_attendance(record_id, "Absent") does to the counts reported for
\* the student of row R: attended one less, total the same
attended_drops_by_one(R) ==
    LET before == student_stats(R.student_id)
        after  == student_stats(R.student_id)'
    IN  /\ before.code = 200
        /\ after.code = 200
        /\ after.attended = before.attended - 1
        /\ after.total_classes = before.total_classes

(* C8, as claimed: for every Present row R, after update_attendance(R, Absent)
   the statistics of R's student show attended one less and total unchanged. *)
C8_CorrectionDropsAttended ==
    [][last'.op = "update_attendance" =>
       \A record_id \in RecordIds :
          (/\ \E a \in attendance : a.id = record_id /\ a.status = "Present"
           /\ update_attendance(record_id, "Absent"))
          => attended_drops_by_one(CHOOSE a \in attendance : a.id = record_id)]_vars

(* C8, amended: for every Present row R whose student is an existing user and
   whose session belongs to that user's class, after update_attendance(R,
   Absent) student_stats shows attended one less and total unchanged; and when
   the user is a student, so does the roster of that class, with no date
   filter and with the date of R's session. *)
C8_CorrectionDropsAttendedInClass ==
    [][last'.op = "update_attendance" =>
       \A record_id \in RecordIds, u \in users, s \in sessions :
          (/\ s.class_id = u.class_id
           /\ \E a \in attendance :
                 /\ a.id = record_id /\ a.status = "Present"
                 /\ a.student_id = u.id /\ a.qr_token = s.qr_token
           /\ update_attendance(record_id, "Absent"))
          => (/\ attended_drops_by_one(CHOOSE a \in attendance : a.id = record_id)
              /\ u.role = "student" =>
                   \A date \in {None, Dates[s.timestamp]} :
                      LET before == admin_attendance_data(u.class_id, date)[u.id]
                          after  == admin_attendance_data(u.class_id, date)'[u.id]
                      IN  /\ after.attended = before.attended - 1
                          /\ after.total = before.total)]_vars

\* a correction to Absent has been made to a row of an existing student for a
\* session of the student's own class, who keeps another Present row
C8_Witness ==
    /\ last = Response("update_attendance", 200, "Record updated")
    /\ \E a \in attendance, u \in users, s \in sessions :
          /\ a.status = "Absent" /\ a.student_id = u.id /\ a.qr_token = s.qr_token
          /\ u.role = "student" /\ s.class_id = u.class_id
          /\ student_stats(u.id).attended = 1

(* C9: delete_student for an existing student removes every attendance row of
   that id and the user row, leaves the other users, the sessions and the
   other ids' attendance rows as they were, and student_stats for the id then
   answers 404. *)
C9_DeleteStudentFrame ==
    [][last'.op = "delete_student" =>
       \A student_id \in KnownIds :
          (/\ \E u \in users : u.id = student_id /\ u.role = "student"
           /\ delete_student(student_id))
          => (/\ last'.code = 200
              /\ attendance' = {a \in attendance : a.student_id # student_id}
              /\ users' = {u \in users : u.id # student_id}
              /\ sessions' = sessions
              /\ student_stats(student_id)'.code = 404)]_vars

\* a student who had a row has been deleted; another user and another id's row
\* are still stored
C9_Witness ==
    /\ last = Response("delete_student", 200, "Student deleted successfully")
    /\ users # {}
    /\ attendance # {}
    /\ Cardinality(attendance) < next_id - 1

(* C10: whenever delete_student answers 404, no attendance row and no user row
   has been deleted. *)
C10_NotFoundLeavesState ==
    [][last'.op = "delete_student" =>
       \A student_id \in KnownIds :
          (/\ last'.code = 404
           /\ delete_student(student_id))
          => (attendance' = attendance /\ users' = users)]_vars

====
